---- MODULE Spec2Model ----
(***************************************************************************)
(* Model of print_tree.py: a command-line tool that renders a directory    *)
(* subtree as a connected text tree.  The state is the filesystem the tool *)
(* is run on, the command-line arguments, and what the runs left behind    *)
(* (standard output, standard error, the --output file, the exit status,   *)
(* and the triple returned by scan_dir).  Each action is one complete run  *)
(* of main().                                                              *)
(*                                                                         *)
(* Text is modelled as a sequence of characters, one string per character. *)
(* The four box-drawing characters are written as their code point names   *)
(* (U+251C and so on); the line feed is the escape \n.                     *)
(***************************************************************************)
EXTENDS Integers, Sequences, FiniteSets, TLC

\* ---------------------------------------------------------------- bounds
\* Largest --max-depth value tried.
MaxDepthArg == 3
\* Largest --max-files value tried.
MaxFilesArg == 3
\* Largest number of files placed in one directory of the tree family.
MaxFilesPerDir == 5

\* ------------------------------------------------------------ characters
\* The printable ASCII characters, in code point order (32 .. 126).  The double
\* quote, the backslash and the backtick are written as their code point names.
Ascii ==
  << " ", "!", "U+0022", "#", "$", "%", "&", "'", "(", ")", "*", "+", ",", "-", ".", "/",
     "0", "1", "2", "3", "4", "5", "6", "7", "8", "9", ":", ";", "<", "=", ">", "?",
     "@", "A", "B", "C", "D", "E", "F", "G", "H", "I", "J", "K", "L", "M", "N", "O",
     "P", "Q", "R", "S", "T", "U", "V", "W", "X", "Y", "Z", "[", "U+005C", "]", "^", "_",
     "U+0060", "a", "b", "c", "d", "e", "f", "g", "h", "i", "j", "k", "l", "m", "n", "o",
     "p", "q", "r", "s", "t", "u", "v", "w", "x", "y", "z", "{", "|", "}", "~" >>

AsciiSet == { Ascii[i] : i \in 1..Len(Ascii) }

\* Position of an ASCII character in Ascii.
AsciiIndex == [ c \in AsciiSet |-> CHOOSE i \in 1..Len(Ascii) : Ascii[i] = c ]

\* Unicode code point of a character (Python compares and encodes strings by it).
CodePoint(c) ==
  IF c \in AsciiSet THEN 31 + AsciiIndex[c]
  ELSE CASE c = "\n"     -> 10
         [] c = "U+2500" -> 9472
         [] c = "U+2502" -> 9474
         [] c = "U+2514" -> 9492
         [] c = "U+251C" -> 9500

\* str.lower() on one character: A..Z map to a..z, the rest is unchanged.
lower_char(c) ==
  IF c \in AsciiSet /\ CodePoint(c) >= 65 /\ CodePoint(c) <= 90
  THEN Ascii[AsciiIndex[c] + 32]
  ELSE c

\* str.lower()
lower(s) == [ i \in 1..Len(s) |-> lower_char(s[i]) ]

\* Python's str less-than: lexicographic by code point, a proper prefix is smaller.
str_less(a, b) ==
  LET n == IF Len(a) < Len(b) THEN Len(a) ELSE Len(b)
      d == { i \in 1..n : a[i] # b[i] }
  IN  IF d = {} THEN Len(a) < Len(b)
      ELSE LET i == CHOOSE k \in d : \A m \in d : k <= m
           IN  CodePoint(a[i]) < CodePoint(b[i])

\* str.strip(): leading and trailing blanks removed.
strip(s) ==
  LET keep == { i \in 1..Len(s) : s[i] # " " }
  IN  IF keep = {} THEN << >>
      ELSE LET lo == CHOOSE k \in keep : \A m \in keep : k <= m
               hi == CHOOSE k \in keep : \A m \in keep : k >= m
           IN  SubSeq(s, lo, hi)

\* str.split on a comma: the pieces between the commas, empty pieces included.
RECURSIVE split(_)
split(s) ==
  LET commas == { i \in 1..Len(s) : s[i] = "," }
  IN  IF commas = {} THEN << s >>
      ELSE LET i == CHOOSE k \in commas : \A m \in commas : k <= m
           IN  << SubSeq(s, 1, i - 1) >> \o split(SubSeq(s, i + 1, Len(s)))

\* str.join with the empty separator
RECURSIVE concat(_)
concat(pieces) ==
  IF pieces = << >> THEN << >> ELSE Head(pieces) \o concat(Tail(pieces))

\* str.join with the line feed as separator
RECURSIVE join_lines(_)
join_lines(ls) ==
  IF ls = << >> THEN << >>
  ELSE IF Len(ls) = 1 THEN ls[1]
  ELSE ls[1] \o << "\n" >> \o join_lines(Tail(ls))

\* str(n) for a natural number: its decimal digits.
RECURSIVE int_str(_)
int_str(n) ==
  IF n < 10 THEN << Ascii[17 + n] >>
  ELSE int_str(n \div 10) \o << Ascii[17 + (n % 10)] >>

\* str.encode in UTF-8, of one character.
utf8_char(c) ==
  LET cp == CodePoint(c)
  IN  IF cp < 128 THEN << cp >>
      ELSE IF cp < 2048 THEN << 192 + (cp \div 64), 128 + (cp % 64) >>
      ELSE << 224 + (cp \div 4096), 128 + ((cp \div 64) % 64), 128 + (cp % 64) >>

\* str.encode in UTF-8: the bytes of the characters, in order (computed by halves).
RECURSIVE utf8(_)
utf8(s) ==
  IF Len(s) = 0 THEN << >>
  ELSE IF Len(s) = 1 THEN utf8_char(s[1])
  ELSE utf8(SubSeq(s, 1, Len(s) \div 2)) \o utf8(SubSeq(s, Len(s) \div 2 + 1, Len(s)))

\* ------------------------------------------------------ module constants
DEFAULT_EXCLUDE_DIRS ==
  { <<".", "g", "i", "t">>,
    <<".", "h", "g">>,
    <<".", "s", "v", "n">>,
    <<".", "i", "d", "e", "a">>,
    <<".", "v", "s", "c", "o", "d", "e">>,
    <<"n", "o", "d", "e", "_", "m", "o", "d", "u", "l", "e", "s">>,
    <<"d", "i", "s", "t">>,
    <<"b", "u", "i", "l", "d">>,
    <<"c", "o", "v", "e", "r", "a", "g", "e">>,
    <<".", "n", "e", "x", "t">>,
    <<".", "t", "u", "r", "b", "o">>,
    <<".", "v", "e", "r", "c", "e", "l">>,
    <<".", "c", "a", "c", "h", "e">>,
    <<".", "p", "a", "r", "c", "e", "l", "-", "c", "a", "c", "h", "e">>,
    <<".", "r", "o", "l", "l", "u", "p", ".", "c", "a", "c", "h", "e">>,
    <<".", "s", "w", "c">>,
    <<".", "s", "v", "e", "l", "t", "e", "-", "k", "i", "t">>,
    <<".", "n", "u", "x", "t">>,
    <<".", "e", "x", "p", "o">>,
    <<".", "e", "x", "p", "o", "-", "s", "h", "a", "r", "e", "d">>,
    <<".", "e", "x", "p", "o", "-", "c", "a", "c", "h", "e">>,
    <<".", "p", "y", "t", "e", "s", "t", "_", "c", "a", "c", "h", "e">>,
    <<".", "D", "S", "_", "S", "t", "o", "r", "e">> }

DEFAULT_EXCLUDE_FILES ==
  { <<".", "D", "S", "_", "S", "t", "o", "r", "e">>,
    <<"T", "h", "u", "m", "b", "s", ".", "d", "b">> }

DEFAULT_EXCLUDE_EXTS ==
  { <<".", "m", "a", "p">>, <<".", "l", "o", "g">> }

BORDER ==
  [ tee |-> << "U+251C", "U+2500", "U+2500", " " >>,
    ell |-> << "U+2514", "U+2500", "U+2500", " " >>,
    bar |-> << "U+2502", " ", " ", " " >>,
    spc |-> << " ", " ", " ", " " >> ]

ASCII_BORDER ==
  [ tee |-> << "|", "-", "-", " " >>,
    ell |-> << "U+0060", "-", "-", " " >>,
    bar |-> << "|", " ", " ", " " >>,
    spc |-> << " ", " ", " ", " " >> ]

\* ------------------------------------------------------------ filesystem
(***************************************************************************)
(* A filesystem is a function from paths to nodes.  A path is the sequence *)
(* of entry names below the root given on the command line (the root is    *)
(* the empty path).  A node is                                             *)
(*   [kind, readable, entries, size]                                       *)
(* kind is dir, file, other (neither is_dir() nor is_file(): a socket, a   *)
(* dangling link) or missing; entries is the order in which iterdir()      *)
(* yields the names of a directory; readable is FALSE when iterdir()       *)
(* raises PermissionError; size is st_size of a file.                      *)
(***************************************************************************)
file_node(sz) == [ kind |-> "file", readable |-> TRUE, entries |-> << >>, size |-> sz ]
other_node == [ kind |-> "other", readable |-> TRUE, entries |-> << >>, size |-> 0 ]
dir_node(rd, names) == [ kind |-> "dir", readable |-> rd, entries |-> names, size |-> 0 ]

\* str(root.resolve()): the resolved root path as text.
ROOT_TEXT == << "/", "w" >>

\* os.sep
SEP == "/"

\* Path.is_dir()
is_dir(fsx, p) == p \in DOMAIN fsx /\ fsx[p].kind = "dir"

\* Path.is_file()
is_file(fsx, p) == p \in DOMAIN fsx /\ fsx[p].kind = "file"

\* Path.suffix: the text from the last dot of the name on, unless that dot is the
\* first or the last character of the name.
suffix(name) ==
  LET dots == { i \in 1..Len(name) : name[i] = "." }
  IN  IF dots = {} THEN << >>
      ELSE LET i == CHOOSE k \in dots : \A m \in dots : k >= m
           IN  IF 1 < i /\ i < Len(name) THEN SubSeq(name, i, Len(name)) ELSE << >>

\* ------------------------------------------------------------- scan_dir
\* The absent value None of an optional, and the test for it.
None == << >>
Some(v) == << v >>

\* Mutant of should_keep_file: the extension is compared without lowercasing it.
should_keep_file_case_sensitive(name, cfg) ==
  IF name \in cfg.exclude_files THEN FALSE
  ELSE IF suffix(name) \in cfg.exclude_exts THEN FALSE
  ELSE IF cfg.only_exts # {} /\ suffix(name) \notin cfg.only_exts THEN FALSE
  ELSE TRUE

\* should_keep_file, with the sets of scan_dir's closure passed in cfg.
should_keep_file(name, cfg) ==
  IF name \in cfg.exclude_files THEN FALSE
  ELSE LET ext == lower(suffix(name))
       IN  IF ext \in cfg.exclude_exts THEN FALSE
           ELSE IF cfg.only_exts # {} /\ ext \notin cfg.only_exts THEN FALSE
           ELSE TRUE

\* The directory filter of the comprehension that builds dirs.
should_keep_dir(name, cfg) == name \notin cfg.exclude_dirs

\* list.sort(key=lambda p: p.name.lower()): a stable sort, so x goes after every
\* element whose key is not greater than its own.
insert_by_name(sorted, x) ==
  LET after == { i \in 1..Len(sorted) : str_less(lower(x), lower(sorted[i])) }
  IN  IF after = {} THEN Append(sorted, x)
      ELSE LET i == CHOOSE k \in after : \A m \in after : k <= m
           IN  SubSeq(sorted, 1, i - 1) \o << x >> \o SubSeq(sorted, i, Len(sorted))

RECURSIVE sort_by_name(_)
sort_by_name(s) ==
  IF s = << >> THEN << >>
  ELSE insert_by_name(sort_by_name(SubSeq(s, 1, Len(s) - 1)), s[Len(s)])

\* dirs of iter_tree: the kept sub-directories of dir_path, sorted.
kept_dirs(fsx, cfg, dir_path) ==
  LET Keep(e) == is_dir(fsx, dir_path \o << e >>) /\ should_keep_dir(e, cfg)
  IN  sort_by_name(SelectSeq(fsx[dir_path].entries, Keep))

\* files of iter_tree: the kept files of dir_path, sorted.
kept_files(fsx, cfg, dir_path) ==
  LET Keep(e) == is_file(fsx, dir_path \o << e >>) /\ should_keep_file(e, cfg)
  IN  sort_by_name(SelectSeq(fsx[dir_path].entries, Keep))

\* The slices files[:head] and files[-tail:] of a Python list (head, tail >= 0).
py_first(s, head) == SubSeq(s, 1, IF head < Len(s) THEN head ELSE Len(s))
py_last(s, tail) ==
  IF tail = 0 \/ tail >= Len(s) THEN s ELSE SubSeq(s, Len(s) - tail + 1, Len(s))

\* Whether iter_tree caps the file list.
is_truncated(files, max_files) ==
  max_files # None /\ Len(files) > max_files[1]

\* Mutant of visible_files: the head takes the larger half of an odd cap.
visible_files_ceil_head(files, max_files) ==
  IF is_truncated(files, max_files)
  THEN LET head == (max_files[1] + 1) \div 2
           tail == max_files[1] - head
       IN  py_first(files, head) \o py_last(files, tail)
  ELSE files

\* visible_files of iter_tree.
visible_files(files, max_files) ==
  IF is_truncated(files, max_files)
  THEN LET head == max_files[1] \div 2
           tail == max_files[1] - head
       IN  py_first(files, head) \o py_last(files, tail)
  ELSE files

\* truncated_note of iter_tree (None when the list is not capped).
truncated_note(files, max_files) ==
  IF is_truncated(files, max_files)
  THEN << ".", ".", ".", " ", "(" >>
       \o int_str(Len(files) - Len(visible_files(files, max_files)))
       \o << " ", "m", "o", "r", "e", " ", "f", "i", "l", "e", "s", " ", "h", "i", "d", "d", "e", "n", ")" >>
  ELSE None

\* total_children of iter_tree.
total_children(dirs, visible, note) ==
  Len(dirs) + Len(visible) + (IF note # None THEN 1 ELSE 0)

\* make_prefix; border is the glyph table scan_dir read from the global BORDER.
make_prefix(prefix_stack, last, border) ==
  concat([ i \in 1..(Len(prefix_stack) - 1) |->
             IF prefix_stack[i] THEN border.spc ELSE border.bar ])
  \o (IF prefix_stack # << >>
      THEN (IF last THEN border.ell ELSE border.tee)
      ELSE << >>)

(***************************************************************************)
(* A rendered line: its text, as appended to lines, and a record of where  *)
(* it came from, which the program does not keep: the kind of line (root,  *)
(* dir, note, file), the path of the entry (for a note, of its directory   *)
(* followed by the note text) and the depth of the listing it belongs to.  *)
(***************************************************************************)
rendered(text, kind, path, depth) ==
  [ text |-> text, kind |-> kind, path |-> path, depth |-> depth ]

no_result == [ out |-> << >>, files_count |-> 0, dirs_count |-> 0 ]

RECURSIVE iter_tree(_, _, _, _, _)
RECURSIVE dirs_loop(_, _, _, _, _, _, _, _)

\* The line of sub-directory d: lines.append(make_prefix(prefix_stack, last) + d.name + "/").
dir_line(dir_path, prefix_stack, depth, cfg, d, last) ==
  rendered(make_prefix(prefix_stack, last, cfg.border) \o d \o << SEP >>,
           "dir", dir_path \o << d >>, depth)

\* Mutant of descend: the depth test lets the recursion go one level deeper.
descend_one_deeper(fsx, cfg, dir_path, prefix_stack, depth, d, last) ==
  IF depth <= cfg.max_depth
  THEN iter_tree(fsx, cfg, dir_path \o << d >>, prefix_stack \o << last >>, depth + 1)
  ELSE no_result

\* The guarded recursive call for sub-directory d: (dc, dd).
descend(fsx, cfg, dir_path, prefix_stack, depth, d, last) ==
  IF depth < cfg.max_depth
  THEN iter_tree(fsx, cfg, dir_path \o << d >>, prefix_stack \o << last >>, depth + 1)
  ELSE no_result

\* Mutant of dirs_step: the directory itself is not counted (dirs_count += dd).
dirs_step_uncounted(line, sub, rest) ==
  [ out         |-> << line >> \o sub.out \o rest.out,
    files_count |-> sub.files_count + rest.files_count,
    dirs_count  |-> sub.dirs_count + rest.dirs_count ]

\* One iteration of the loop for d in dirs, followed by the later ones (rest): the
\* line of d, the lines of its subtree, files_count += dc, dirs_count += dd + 1.
dirs_step(line, sub, rest) ==
  [ out         |-> << line >> \o sub.out \o rest.out,
    files_count |-> sub.files_count + rest.files_count,
    dirs_count  |-> sub.dirs_count + 1 + rest.dirs_count ]

\* Iterations i .. len(dirs) of the loop for d in dirs of iter_tree; idx is i there.
dirs_loop(fsx, cfg, dir_path, prefix_stack, depth, dirs, i, total) ==
  IF i > Len(dirs) THEN no_result
  ELSE dirs_step(dir_line(dir_path, prefix_stack, depth, cfg, dirs[i], i = total),
                 descend(fsx, cfg, dir_path, prefix_stack, depth, dirs[i], i = total),
                 dirs_loop(fsx, cfg, dir_path, prefix_stack, depth, dirs, i + 1, total))

\* Mutant of note_lines: the note is counted in total_children but never appended.
note_lines_skipped(dir_path, prefix_stack, depth, cfg, dirs, note, total) == << >>

\* The line of the truncation note, if there is one; idx is len(dirs) + 1 there.
note_lines(dir_path, prefix_stack, depth, cfg, dirs, note, total) ==
  IF note # None
  THEN << rendered(make_prefix(prefix_stack, Len(dirs) + 1 = total, cfg.border) \o note,
                   "note", dir_path \o << note >>, depth) >>
  ELSE << >>

\* The lines of the loop for f in visible_files.
file_lines(dir_path, prefix_stack, depth, cfg, dirs, note, visible, total) ==
  [ k \in 1..Len(visible) |->
      rendered(make_prefix(prefix_stack,
                           Len(dirs) + (IF note # None THEN 1 ELSE 0) + k = total,
                           cfg.border) \o visible[k],
               "file", dir_path \o << visible[k] >>, depth) ]

\* Mutant of iter_return: the file loop runs before the note is appended.
iter_return_files_first(dl, notes, flines, files) ==
  [ out         |-> dl.out \o flines \o notes,
    files_count |-> dl.files_count + Len(files),
    dirs_count  |-> dl.dirs_count ]

\* What iter_tree returns once its three loops have run.
iter_return(dl, notes, flines, files) ==
  [ out         |-> dl.out \o notes \o flines,
    files_count |-> dl.files_count + Len(files),
    dirs_count  |-> dl.dirs_count ]

\* The three loops of iter_tree, total_children known.
iter_loops(fsx, cfg, dir_path, prefix_stack, depth, dirs, files, visible, note, total) ==
  iter_return(dirs_loop(fsx, cfg, dir_path, prefix_stack, depth, dirs, 1, total),
              note_lines(dir_path, prefix_stack, depth, cfg, dirs, note, total),
              file_lines(dir_path, prefix_stack, depth, cfg, dirs, note, visible, total),
              files)

\* iter_tree from the cap on, dirs and files known.
iter_capped(fsx, cfg, dir_path, prefix_stack, depth, dirs, files, visible, note) ==
  iter_loops(fsx, cfg, dir_path, prefix_stack, depth, dirs, files, visible, note,
             total_children(dirs, visible, note))

\* iter_tree from the split into dirs and files on.
iter_listed(fsx, cfg, dir_path, prefix_stack, depth, dirs, files) ==
  iter_capped(fsx, cfg, dir_path, prefix_stack, depth, dirs, files,
              visible_files(files, cfg.max_files), truncated_note(files, cfg.max_files))

\* Mutant of iter_tree: the PermissionError is not met, the entries are listed.
iter_tree_lists_unreadable(fsx, cfg, dir_path, prefix_stack, depth) ==
  iter_listed(fsx, cfg, dir_path, prefix_stack, depth,
              kept_dirs(fsx, cfg, dir_path), kept_files(fsx, cfg, dir_path))

\* iter_tree: (files_count, dirs_count) and, in out, the lines it appended.  A
\* directory that cannot be listed returns (0, 0) and appends nothing.
iter_tree(fsx, cfg, dir_path, prefix_stack, depth) ==
  IF ~fsx[dir_path].readable THEN no_result
  ELSE iter_listed(fsx, cfg, dir_path, prefix_stack, depth,
                   kept_dirs(fsx, cfg, dir_path), kept_files(fsx, cfg, dir_path))

\* The root line: str(root.resolve()) + os.sep.
root_line == rendered(ROOT_TEXT \o << SEP >>, "root", << >>, 0)

\* The texts of rendered lines: the list lines of scan_dir.
texts(out) == [ i \in 1..Len(out) |-> out[i].text ]

\* What scan_dir returns, r being what iter_tree(root, [], 1) returned.
scan_return(r) ==
  [ lines |-> texts(<< root_line >> \o r.out),
    out   |-> << root_line >> \o r.out,
    fcnt  |-> r.files_count,
    dcnt  |-> r.dirs_count ]

\* scan_dir: (lines, file_count, dir_count), with the record of each line in out.
scan_dir(fsx, cfg) == scan_return(iter_tree(fsx, cfg, << >>, << >>, 1))

\* ----------------------------------------------------------------- main
\* human_size: the loop over the units, from unit number u on.
UNITS == << << "B" >>, << "K", "B" >>, << "M", "B" >>, << "G", "B" >>, << "T", "B" >> >>

RECURSIVE human_size_from(_, _)
human_size_from(num, u) ==
  IF u > Len(UNITS) THEN int_str(num) \o << "P", "B" >>
  ELSE IF num < 1024 THEN int_str(num) \o UNITS[u]
  ELSE human_size_from(num \div 1024, u + 1)

human_size(num) == human_size_from(num, 1)

\* The pieces of a comma-separated option that are not blank.
pieces_of(arg) ==
  LET ps == split(arg)
  IN  { ps[i] : i \in { k \in 1..Len(ps) : strip(ps[k]) # << >> } }

\* An extension of --only or --exclude-exts: stripped, lowercased, with a leading dot.
norm_ext(e) ==
  IF strip(e)[1] = "." THEN lower(strip(e)) ELSE << "." >> \o lower(strip(e))

\* only_exts of main.
only_exts_of(args) ==
  IF strip(args.only) # << >> THEN { norm_ext(e) : e \in pieces_of(args.only) } ELSE {}

\* exclude_dirs of main.
exclude_dirs_of(args) ==
  DEFAULT_EXCLUDE_DIRS \cup
    (IF strip(args.exclude_dirs) # << >>
     THEN { strip(d) : d \in pieces_of(args.exclude_dirs) } ELSE {})

\* exclude_exts of main.
exclude_exts_of(args) ==
  DEFAULT_EXCLUDE_EXTS \cup
    (IF strip(args.exclude_exts) # << >>
     THEN { norm_ext(e) : e \in pieces_of(args.exclude_exts) } ELSE {})

\* exclude_files of main.
exclude_files_of(args) ==
  DEFAULT_EXCLUDE_FILES \cup
    (IF strip(args.exclude_files) # << >>
     THEN { strip(f) : f \in pieces_of(args.exclude_files) } ELSE {})

\* max_files of main: None for 0, otherwise at least 1.
max_files_of(args) ==
  IF args.max_files = 0 THEN None
  ELSE Some(IF args.max_files > 1 THEN args.max_files ELSE 1)

\* max_depth as main passes it: at least 1.
max_depth_of(args) == IF args.max_depth > 1 THEN args.max_depth ELSE 1

\* The global BORDER after main's switch.
border_of(args) == IF args.ascii THEN ASCII_BORDER ELSE BORDER

\* The arguments of main's call of scan_dir, with the border scan_dir reads.
config_of(args) ==
  [ max_depth     |-> max_depth_of(args),
    only_exts     |-> only_exts_of(args),
    exclude_dirs  |-> exclude_dirs_of(args),
    exclude_files |-> exclude_files_of(args),
    exclude_exts  |-> exclude_exts_of(args),
    max_files     |-> max_files_of(args),
    border        |-> border_of(args) ]

\* size_bytes of main: st_size of every file root.rglob finds.  rglob follows no
\* filter and no depth limit, and passes over a directory it cannot list.
RECURSIVE size_below(_, _)
RECURSIVE size_of_entries(_, _, _)
size_of_entries(fsx, p, i) ==
  IF i > Len(fsx[p].entries) THEN 0
  ELSE size_below(fsx, p \o << fsx[p].entries[i] >>) + size_of_entries(fsx, p, i + 1)

size_below(fsx, p) ==
  IF is_file(fsx, p) THEN fsx[p].size
  ELSE IF is_dir(fsx, p) /\ fsx[p].readable THEN size_of_entries(fsx, p, 1)
  ELSE 0

\* The two lines --show-sizes appends.
summary_lines(fsx, args, res) ==
  IF args.show_sizes
  THEN << << >>,
          << "S", "u", "m", "m", "a", "r", "y", ":", " " >> \o int_str(res.dcnt) \o << " ", "d", "i", "r", "s", ",", " " >> \o int_str(res.fcnt)
          \o << " ", "f", "i", "l", "e", "s", ",", " ", "a", "p", "p", "r", "o", "x", " " >> \o human_size(size_below(fsx, << >>)) \o << " ", "t", "o", "t", "a", "l", "." >> >>
  ELSE << >>

\* output_text of main.
output_text(fsx, args, res) == join_lines(res.lines \o summary_lines(fsx, args, res))

\* print(text) on a UTF-8 standard stream: the bytes of the text and of the line
\* feed print ends it with.
print_bytes(text) == utf8(text \o << "\n" >>)

\* Mutant of write_text_bytes: the file is ended with a second line feed.
write_text_bytes_extra_newline(text) == utf8(text \o << "\n", "\n" >>)

\* Path.write_text(text, encoding="utf-8"): the bytes of the text.
write_text_bytes(text) == utf8(text)

\* The message of main for a root that is missing or no directory.
error_text == << "E", "r", "r", "o", "r", ":", " ", "p", "a", "t", "h", " ", "n", "o", "t", " ", "f", "o", "u", "n", "d", " ", "o", "r", " ", "n", "o", "t", " ", "a", " ", "d", "i", "r", "e", "c", "t", "o", "r", "y", ":", " " >> \o ROOT_TEXT

\* The confirmation main prints after writing the --output file.
wrote_text(output) == << "W", "r", "o", "t", "e", " ", "t", "r", "e", "e", " ", "t", "o", " " >> \o output

\* ---------------------------------------------------------------- state
VARIABLES
  fs,            \* the filesystem below the root path of the command line
  args,          \* the parsed command line, --output apart
  done,          \* the runs made so far: plain (no --output), saved (--output), error
  result,        \* what scan_dir returned to the last run
  stdout_plain,  \* bytes the run without --output wrote to standard output
  stdout_saved,  \* bytes the run with --output wrote to standard output
  out_file,      \* bytes of the file the run with --output wrote
  stderr,        \* bytes written to standard error
  exit_code      \* exit status of the last run

vars == << fs, args, done, result, stdout_plain, stdout_saved, out_file, stderr, exit_code >>

\* ------------------------------------------------------- input families
\* Size in bytes given to every file.
FileSize == 600

NoFs == [ q \in {} |-> other_node ]

files_at(p, names) ==
  [ q \in { p \o << names[i] >> : i \in 1..Len(names) } |-> file_node(FileSize) ]

reversed(s) == [ i \in 1..Len(s) |-> s[Len(s) + 1 - i] ]

\* The order iterdir() yields the names in: as listed, or the other way round.
listed(names, order) == IF order = "fwd" THEN names ELSE reversed(names)

N_src   == << "s", "r", "c" >>
N_Lib   == << "L", "i", "b" >>
N_deep  == << "d", "e", "e", "p" >>
N_Build == << "B", "u", "i", "l", "d" >>
N_x_ts  == << "x", ".", "t", "s" >>
N_k_ts  == << "k", ".", "t", "s" >>
N_z_ts  == << "z", ".", "t", "s" >>

\* File names of the tree family; the second one has a default-excluded extension.
FILE_POOL ==
  << << "a", ".", "t", "s" >>, << "m", ".", "m", "a", "p" >>, << "B", ".", "t", "s" >>, << "c", ".", "t", "s", "x" >>, << "d", ".", "J", "S" >>, << "e", ".", "c", "s", "s" >>, << "f", ".", "t", "s" >> >>

pool_first(n) == SubSeq(FILE_POOL, 1, n)

(***************************************************************************)
(* The tree family:                                                        *)
(*   root: the first nRoot pool files, Build/ and src/                     *)
(*   Build/ (readable or not): k.ts                                        *)
(*   src/ (readable or not): the first nSrc pool files and Lib/            *)
(*   src/Lib/ (readable or not): x.ts and deep/                            *)
(*   src/Lib/deep/: z.ts                                                   *)
(* build, src in absent, unreadable, present; lib in absent, unreadable,   *)
(* empty, files, deep (x.ts and deep/), deeponly (deep/ alone).            *)
(***************************************************************************)
tree_fs(order, nRoot, build, src, nSrc, lib) ==
  LET rootNames == pool_first(nRoot)
                   \o (IF build # "absent" THEN << N_Build >> ELSE << >>)
                   \o (IF src # "absent" THEN << N_src >> ELSE << >>)
      srcNames  == pool_first(nSrc) \o (IF lib # "absent" THEN << N_Lib >> ELSE << >>)
      libFiles  == IF lib \in { "unreadable", "files", "deep" } THEN << N_x_ts >> ELSE << >>
      libNames  == libFiles \o (IF lib \in { "deep", "deeponly" } THEN << N_deep >> ELSE << >>)
      p_src     == << N_src >>
      p_lib     == << N_src, N_Lib >>
      p_deep    == << N_src, N_Lib, N_deep >>
  IN  (<< >> :> dir_node(TRUE, listed(rootNames, order)))
      @@ files_at(<< >>, pool_first(nRoot))
      @@ (IF build # "absent"
          THEN (<< N_Build >> :> dir_node(build # "unreadable", << N_k_ts >>))
               @@ files_at(<< N_Build >>, << N_k_ts >>)
          ELSE NoFs)
      @@ (IF src # "absent"
          THEN (p_src :> dir_node(src # "unreadable", listed(srcNames, order)))
               @@ files_at(p_src, pool_first(nSrc))
          ELSE NoFs)
      @@ (IF src # "absent" /\ lib # "absent"
          THEN (p_lib :> dir_node(lib # "unreadable", listed(libNames, order)))
               @@ files_at(p_lib, libFiles)
          ELSE NoFs)
      @@ (IF src # "absent" /\ lib \in { "deep", "deeponly" }
          THEN (p_deep :> dir_node(TRUE, << N_z_ts >>)) @@ files_at(p_deep, << N_z_ts >>)
          ELSE NoFs)

\* The shapes of src/: absent, unreadable (with one file and Lib/), or readable with
\* every number of files and every shape of Lib/.
SrcShapes ==
  { [ src |-> "absent", nSrc |-> 0, lib |-> "absent" ],
    [ src |-> "unreadable", nSrc |-> 1, lib |-> "files" ] }
  \cup { [ src |-> "present", nSrc |-> n, lib |-> l ] :
           n \in 0..MaxFilesPerDir,
           l \in { "absent", "unreadable", "empty", "files", "deep", "deeponly" } }

TreeFilesystems ==
  { tree_fs(order, nRoot, build, s.src, s.nSrc, s.lib) :
      order \in { "fwd", "rev" }, nRoot \in { 0, 3 },
      build \in { "absent", "unreadable", "present" }, s \in SrcShapes }

\* A root path that is a file, and one that does not exist.
BadRoots ==
  { (<< >> :> file_node(FileSize)),
    (<< >> :> [ kind |-> "missing", readable |-> FALSE, entries |-> << >>, size |-> 0 ]) }

default_args ==
  [ max_depth |-> 10, only |-> << >>, exclude_dirs |-> << >>, exclude_exts |-> << >>,
    exclude_files |-> << >>, max_files |-> 400, show_sizes |-> FALSE, ascii |-> FALSE ]

TreeArgs ==
  { [ default_args EXCEPT !.max_depth = d, !.max_files = m ] :
      d \in 1..MaxDepthArg, m \in 0..MaxFilesArg }

(***************************************************************************)
(* The filter family: one directory level of names that meet every rule of *)
(* the filters, with src/, build/ and Build/ holding files of their own.   *)
(* A filesystem of the family holds all the names or all but one.          *)
(***************************************************************************)
N_build == << "b", "u", "i", "l", "d" >>
N_git   == << ".", "g", "i", "t" >>
N_i_ts  == << "i", ".", "t", "s" >>
N_N_JS  == << "N", ".", "J", "S" >>

FILTER_FILES ==
  << << "a", ".", "t", "s" >>, << "b", ".", "j", "s" >>, << "c", ".", "t", "s", "x" >>, << "D", ".", "T", "S" >>, << "e", ".", "m", "a", "p" >>, << "T", "h", "u", "m", "b", "s", ".", "d", "b" >>, << ".", "D", "S", "_", "S", "t", "o", "r", "e" >>, << "M", "a", "k", "e", "f", "i", "l", "e" >> >>

FILTER_DIRS == << N_src, N_build, N_Build, N_git >>

\* Neither a file nor a directory, although its name has a kept extension.
FILTER_OTHERS == << << "s", "o", "c", "k", ".", "t", "s" >> >>

FILTER_NAMES == FILTER_FILES \o FILTER_DIRS \o FILTER_OTHERS

in_seq(x, s) == \E i \in 1..Len(s) : s[i] = x

\* The files placed in a directory of the filter family.
filter_children(d) ==
  IF d = N_src THEN << N_i_ts, N_N_JS >>
  ELSE IF d = N_git THEN << >>
  ELSE << N_k_ts >>

filter_node(p) ==
  IF p = << >> THEN other_node
  ELSE IF Len(p) = 1 /\ in_seq(p[1], FILTER_DIRS) THEN dir_node(TRUE, filter_children(p[1]))
  ELSE IF Len(p) = 1 /\ in_seq(p[1], FILTER_OTHERS) THEN other_node
  ELSE file_node(FileSize)

filter_fs(order, missing) ==
  LET Present(n) == n \notin missing
      names == SelectSeq(FILTER_NAMES, Present)
      top   == { << names[i] >> : i \in 1..Len(names) }
      below == { << d, f >> : d \in { q[1] : q \in { r \in top : in_seq(r[1], FILTER_DIRS) } },
                              f \in { N_i_ts, N_N_JS, N_k_ts } }
      sub   == { q \in below : in_seq(q[2], filter_children(q[1])) }
  IN  [ q \in { << >> } \cup top \cup sub |->
          IF q = << >> THEN dir_node(TRUE, listed(names, order)) ELSE filter_node(q) ]

FilterFilesystems ==
  { filter_fs(order, missing) :
      order \in { "fwd", "rev" },
      missing \in { {} } \cup { { FILTER_NAMES[i] } : i \in 1..Len(FILTER_NAMES) } }

OnlyArgs == { << >>, << "t", "s" >>, << ".", "T", "S", ",", " ", ".", "j", "s" >>, << " ", ",", " " >> }
ExcludeDirArgs == { << >>, << "B", "u", "i", "l", "d", " ", ",", " ", "s", "r", "c" >> }
ExcludeFileArgs == { << >>, << "a", ".", "t", "s" >> }
ExcludeExtArgs == { << >>, << "J", "S" >> }

FilterArgs ==
  { [ max_depth |-> d, only |-> o, exclude_dirs |-> xd, exclude_exts |-> xe,
      exclude_files |-> xf, max_files |-> m, show_sizes |-> s, ascii |-> a ] :
      d \in { 0, 2 }, o \in OnlyArgs, xd \in ExcludeDirArgs, xe \in ExcludeExtArgs,
      xf \in ExcludeFileArgs, m \in { -1, 0 }, s \in BOOLEAN, a \in BOOLEAN }

\* Values of --output.
OutputPaths == { << "o", "u", "t", ".", "t", "x", "t" >> }

Blank ==
  /\ done = {}
  /\ result = [ lines |-> << >>, out |-> << >>, fcnt |-> 0, dcnt |-> 0 ]
  /\ stdout_plain = << >>
  /\ stdout_saved = << >>
  /\ out_file = << >>
  /\ stderr = << >>
  /\ exit_code = 0

Init ==
  /\ \/ fs \in TreeFilesystems /\ args \in TreeArgs
     \/ fs \in BadRoots /\ args = default_args
  /\ Blank

InitFilter ==
  /\ \/ fs \in FilterFilesystems /\ args \in FilterArgs
     \/ fs \in BadRoots /\ args = default_args
  /\ Blank

\* ---------------------------------------------------------------- actions
\* main() on a root that does not exist or is no directory: message, exit status 1.
MainError ==
  /\ "error" \notin done
  /\ fs[<< >>].kind # "dir"
  /\ stderr' = print_bytes(error_text)
  /\ exit_code' = 1
  /\ done' = done \cup { "error" }
  /\ UNCHANGED << fs, args, result, stdout_plain, stdout_saved, out_file >>

\* main() without --output: scan, then print the text.
PrintRun(res) ==
  /\ result' = res
  /\ stdout_plain' = print_bytes(output_text(fs, args, res))

MainPrint ==
  /\ "plain" \notin done
  /\ fs[<< >>].kind = "dir"
  /\ PrintRun(scan_dir(fs, config_of(args)))
  /\ exit_code' = 0
  /\ done' = done \cup { "plain" }
  /\ UNCHANGED << fs, args, stdout_saved, out_file, stderr >>

\* main() with --output (a path outside the tree): scan, write the file, confirm.
WriteRun(res, output) ==
  /\ result' = res
  /\ out_file' = write_text_bytes(output_text(fs, args, res))
  /\ stdout_saved' = print_bytes(wrote_text(output))

MainWrite ==
  /\ "saved" \notin done
  /\ fs[<< >>].kind = "dir"
  /\ \E output \in OutputPaths : WriteRun(scan_dir(fs, config_of(args)), output)
  /\ exit_code' = 0
  /\ done' = done \cup { "saved" }
  /\ UNCHANGED << fs, args, stdout_plain, stderr >>

Next == MainError \/ MainPrint \/ MainWrite

Spec == Init /\ [][Next]_vars

\* The same program on the filter family.
SpecFilter == InitFilter /\ [][Next]_vars

\* ------------------------------------------------- reading the outcome
\* A run has scanned: result holds what scan_dir returned.
Scanned == done \cap { "plain", "saved" } # {}

\* The configuration scan_dir was called with; the definitions below take it as c.
Cfg == config_of(args)

\* The rendered lines with their records.
Out == result.out

parent_of(p) == SubSeq(p, 1, Len(p) - 1)
name_of(p) == p[Len(p)]

\* The children of directory p in the filesystem.
children(p) == { q \in DOMAIN fs : q # << >> /\ parent_of(q) = p }

\* The filter as the specification words it.
KeepsDir(c, q) == is_dir(fs, q) /\ name_of(q) \notin c.exclude_dirs

KeepsFile(c, q) ==
  /\ is_file(fs, q)
  /\ name_of(q) \notin c.exclude_files
  /\ lower(suffix(name_of(q))) \notin c.exclude_exts
  /\ (c.only_exts = {} \/ lower(suffix(name_of(q))) \in c.only_exts)

\* Directories the traversal meets: kept, at depth at most max_depth, below
\* readable kept directories only.
ListedDir(c, p) ==
  /\ p # << >>
  /\ Len(p) <= c.max_depth
  /\ fs[<< >>].readable
  /\ \A k \in 1..Len(p) : KeepsDir(c, SubSeq(p, 1, k))
  /\ \A k \in 1..(Len(p) - 1) : fs[SubSeq(p, 1, k)].readable

ListedDirs(c) == { p \in DOMAIN fs : ListedDir(c, p) }

\* Directories whose contents the traversal lists: the root and the listed
\* directories above the depth limit, when readable.
Expanded(c, p) ==
  /\ is_dir(fs, p)
  /\ fs[p].readable
  /\ p = << >> \/ (ListedDir(c, p) /\ Len(p) < c.max_depth)

ExpandedDirs(c) == { p \in DOMAIN fs : Expanded(c, p) }

\* The files of p that pass the filter, and how many of them are shown.
PassingFiles(c, p) == { q \in children(p) : KeepsFile(c, q) }
KeptSubdirs(c, p) == { q \in children(p) : KeepsDir(c, q) }

Capped(c, p) ==
  c.max_files # None /\ Cardinality(PassingFiles(c, p)) > c.max_files[1]

ShownCount(c, p) ==
  IF Capped(c, p) THEN c.max_files[1] ELSE Cardinality(PassingFiles(c, p))

\* The sum of the values of function f over the set S.
RECURSIVE sum_over(_, _)
sum_over(S, f) ==
  IF S = {} THEN 0
  ELSE LET x == CHOOSE y \in S : TRUE IN f[x] + sum_over(S \ { x }, f)

\* Indices of the rendered lines of a kind below parent p.
LinesOf(p, kind) ==
  { i \in 2..Len(Out) : Out[i].kind = kind /\ parent_of(Out[i].path) = p }

LineIndex(q) == CHOOSE i \in 2..Len(Out) : Out[i].path = q
HasLine(q) == \E i \in 2..Len(Out) : Out[i].path = q

\* The names of the file lines of p, in the order rendered.
RECURSIVE names_from(_, _)
names_from(p, i) ==
  IF i > Len(Out) THEN << >>
  ELSE (IF Out[i].kind = "file" /\ parent_of(Out[i].path) = p
        THEN << name_of(Out[i].path) >> ELSE << >>) \o names_from(p, i + 1)

ShownFileNames(p) == names_from(p, 2)

\* The text of a child line after its prefix.
BodyOf(i) ==
  IF Out[i].kind = "dir" THEN name_of(Out[i].path) \o << SEP >> ELSE name_of(Out[i].path)

\* The prefix of a child line: its text without the body.
PrefixOf(i) == SubSeq(Out[i].text, 1, Len(Out[i].text) - Len(BodyOf(i)))

\* Line i is the last rendered item of its parent's listing.
IsLastSibling(i) ==
  ~ \E j \in (i + 1)..Len(Out) : parent_of(Out[j].path) = parent_of(Out[i].path)

\* ---------------------------------------------------------------- claims
\* C1: the number of lines scan_dir returns is 1 for the root line, plus one per
\* directory met, plus one per file shown (after filtering and the cap), plus one
\* per expanded directory whose file list was capped.
C1_LineCount ==
  LET c == Cfg IN
    Scanned =>
      Len(result.lines) =
        1 + Cardinality(ListedDirs(c)) + sum_over(ExpandedDirs(c), [ p \in ExpandedDirs(c) |-> ShownCount(c, p) ])
          + Cardinality({ p \in ExpandedDirs(c) : Capped(c, p) })

\* C1 witness: a scan that listed directories, filtered a file out and capped a list.
C1_Witness ==
  LET c == Cfg IN
    /\ Scanned
    /\ Cardinality(ListedDirs(c)) >= 2
    /\ \E p \in ExpandedDirs(c) : Capped(c, p) /\ p # << >>
    /\ \E q \in DOMAIN fs : is_file(fs, q) /\ Expanded(c, parent_of(q)) /\ ~KeepsFile(c, q)

\* C2 (as stated): every child line, those of the root's own listing included,
\* has a prefix that ends with the line's connector: the corner glyph when the
\* line is the last rendered item of its parent's listing (the truncation note
\* counts as an item), the branch glyph otherwise.
C2_OwnConnector ==
  LET c == Cfg IN
    Scanned =>
      \A i \in 2..Len(Out) :
        /\ Len(PrefixOf(i)) >= 4
        /\ SubSeq(PrefixOf(i), Len(PrefixOf(i)) - 3, Len(PrefixOf(i)))
             = (IF IsLastSibling(i) THEN c.border.ell ELSE c.border.tee)

\* The ancestors of line i between the root and the entry: the directories at
\* depths 1 .. depth - 1 of its path, the immediate parent included.
AncestorSegment(c, i, k) ==
  IF IsLastSibling(LineIndex(SubSeq(Out[i].path, 1, k)))
  THEN c.border.spc ELSE c.border.bar

\* The prefix of line i before its own connector.
BeforeConnector(i) ==
  IF Len(PrefixOf(i)) >= 4 THEN SubSeq(PrefixOf(i), 1, Len(PrefixOf(i)) - 4) ELSE << >>

\* C3 (as stated): the prefix before a line's own connector has one segment per
\* ancestor directory between the root and the entry, the immediate parent
\* included, in root-to-leaf order: a bar when that ancestor has later siblings
\* rendered, blank spacing when it is the last of its listing.
C3_AncestorSegments ==
  LET c == Cfg IN
    Scanned =>
      \A i \in 2..Len(Out) :
        BeforeConnector(i)
          = concat([ k \in 1..(Len(Out[i].path) - 1) |-> AncestorSegment(c, i, k) ])

\* Line j lies in the subtree of the directory of line i.
IsUnder(j, i) ==
  /\ Len(Out[j].path) > Len(Out[i].path)
  /\ SubSeq(Out[j].path, 1, Len(Out[i].path)) = Out[i].path

KindRank(kind) == IF kind = "dir" THEN 1 ELSE IF kind = "note" THEN 2 ELSE 3

\* C4: within one parent's listing the sub-directory lines come first, each
\* followed at once by the lines of its subtree, then the truncation note (at most
\* one, and only where the list was capped, before the first file), then the files.
C4_DirsNoteFiles ==
  LET c == Cfg IN
    Scanned =>
      /\ \A i, j \in 2..Len(Out) :
           (i < j /\ parent_of(Out[i].path) = parent_of(Out[j].path))
             => KindRank(Out[i].kind) <= KindRank(Out[j].kind)
      /\ \A i \in 2..Len(Out) :
           Out[i].kind = "dir" =>
             \A j \in 2..Len(Out) :
               IsUnder(j, i) => (j > i /\ \A k \in (i + 1)..j : IsUnder(k, i))
      /\ \A p \in DOMAIN fs :
           /\ Cardinality(LinesOf(p, "note")) = (IF Expanded(c, p) /\ Capped(c, p) THEN 1 ELSE 0)
           /\ \A i \in LinesOf(p, "note") : \E j \in LinesOf(p, "file") : j = i + 1

\* C4 witness: a listing below the root with a sub-directory that has lines of its
\* own, a truncation note and files.
C4_Witness ==
  LET c == Cfg IN
    /\ Scanned
    /\ \E p \in ExpandedDirs(c) :
         /\ p # << >>
         /\ LinesOf(p, "note") # {}
         /\ LinesOf(p, "file") # {}
         /\ \E i \in LinesOf(p, "dir") : \E j \in 2..Len(Out) : IsUnder(j, i)

\* The text of the truncation note for n files of which c are shown.
NoteText(n, c) == << ".", ".", ".", " ", "(" >> \o int_str(n - c) \o << " ", "m", "o", "r", "e", " ", "f", "i", "l", "e", "s", " ", "h", "i", "d", "d", "e", "n", ")" >>

\* C5: with a cap >= 1, a directory with n > cap sorted kept files shows exactly
\* the first cap \div 2 and the last cap - cap \div 2 of them, and one note that
\* reads ... (n - cap more files hidden); with n <= cap, or without a cap, it shows
\* all n files and no note.
C5_HeadTail ==
  LET c == Cfg IN
    Scanned =>
      \A p \in ExpandedDirs(c) :
        LET files == kept_files(fs, c, p)
            n     == Len(files)
        IN  IF c.max_files # None /\ n > c.max_files[1]
            THEN LET cap == c.max_files[1]
                 IN  /\ cap >= 1
                     /\ ShownFileNames(p)
                          = SubSeq(files, 1, cap \div 2)
                            \o SubSeq(files, n - (cap - cap \div 2) + 1, n)
                     /\ Len(ShownFileNames(p)) = cap
                     /\ Cardinality(LinesOf(p, "note")) = 1
                     /\ \A i \in LinesOf(p, "note") : BodyOf(i) = NoteText(n, cap)
            ELSE /\ ShownFileNames(p) = files
                 /\ LinesOf(p, "note") = {}

\* C5 witness: an odd cap of 3 on a directory with at least 4 kept files, so that
\* head (1) and tail (2) differ.
C5_Witness ==
  LET c == Cfg IN
    /\ Scanned
    /\ c.max_files = Some(3)
    /\ \E p \in ExpandedDirs(c) : Len(kept_files(fs, c, p)) >= 4 /\ LinesOf(p, "note") # {}

\* Some rendered line lies below path p.
HasLinesBelow(p) ==
  \E j \in 2..Len(Out) :
    Len(Out[j].path) > Len(p) /\ SubSeq(Out[j].path, 1, Len(p)) = p

\* C6: with maximum depth D (the root's children are at depth 1) no rendered
\* entry lies deeper than D; a kept sub-directory at depth D is listed and nothing
\* of it is rendered; a kept readable sub-directory at a depth below D is listed and
\* its contents are rendered: every kept sub-directory and the files shown.
C6_DepthLimit ==
  LET c == Cfg IN
    Scanned =>
      /\ \A i \in 2..Len(Out) : Len(Out[i].path) <= c.max_depth
      /\ \A p \in DOMAIN fs :
           (p # << >> /\ KeepsDir(c, p) /\ Expanded(c, parent_of(p))) =>
             /\ HasLine(p)
             /\ Len(p) = c.max_depth => ~HasLinesBelow(p)
             /\ (Len(p) < c.max_depth /\ fs[p].readable) =>
                  /\ \A q \in KeptSubdirs(c, p) : HasLine(q)
                  /\ Cardinality(LinesOf(p, "file")) = ShownCount(c, p)

\* C6 witness: a directory at the depth limit that has entries, none rendered,
\* beside a directory above the limit whose entries are rendered.
C6_Witness ==
  LET c == Cfg IN
    /\ Scanned
    /\ \E p \in ListedDirs(c) :
         Len(p) = c.max_depth /\ fs[p].readable /\ fs[p].entries # << >>
    /\ \E p \in ListedDirs(c) : Len(p) < c.max_depth /\ HasLinesBelow(p)

\* The paths of the lines of a kind below p.
PathsOf(p, kind) == { Out[i].path : i \in LinesOf(p, kind) }

\* C7: in every expanded directory a sub-directory is kept exactly when its name
\* is not in the directory exclusion set, and a file exactly when its name is not
\* excluded, its lowercased extension is not excluded and the allow-list is empty or
\* holds that extension: the directory lines are the kept sub-directories, the file
\* lines are kept files (all of them when the list is not capped), and the file
\* count is the number of kept files.
C7_Filter ==
  LET c == Cfg IN
    Scanned =>
      /\ \A p \in ExpandedDirs(c) :
           /\ PathsOf(p, "dir") = KeptSubdirs(c, p)
           /\ PathsOf(p, "file") \subseteq PassingFiles(c, p)
           /\ ~Capped(c, p) => PathsOf(p, "file") = PassingFiles(c, p)
           /\ Cardinality(LinesOf(p, "file")) = ShownCount(c, p)
      /\ result.fcnt
           = sum_over(ExpandedDirs(c), [ p \in ExpandedDirs(c) |-> Cardinality(PassingFiles(c, p)) ])

\* C7 witness: an allow-list of .ts alone, no cap; c.tsx is hidden, D.TS is shown,
\* Build/ is shown and build/ is not.
C7_Witness ==
  LET c == Cfg IN
    /\ Scanned
    /\ c.only_exts = { << ".", "t", "s" >> }
    /\ c.max_files = None
    /\ << << "c", ".", "t", "s", "x" >> >> \in DOMAIN fs /\ ~HasLine(<< << "c", ".", "t", "s", "x" >> >>)
    /\ HasLine(<< << "D", ".", "T", "S" >> >>)
    /\ HasLine(<< N_Build >>)
    /\ << N_build >> \in DOMAIN fs /\ ~HasLine(<< N_build >>)

\* The filesystem with every unreadable directory below the root made an empty
\* readable one.
AsIfEmpty ==
  [ p \in DOMAIN fs |->
      IF p # << >> /\ is_dir(fs, p) /\ ~fs[p].readable THEN dir_node(TRUE, << >>) ELSE fs[p] ]

\* C8: a directory below the root that cannot be listed keeps its own line and is
\* counted as one directory, nothing is rendered below it, and lines and counts
\* are those of the same tree with that directory empty.
C8_UnreadableAsEmpty ==
  LET c == Cfg IN
    Scanned =>
      /\ result = scan_dir(AsIfEmpty, c)
      /\ \A p \in ListedDirs(c) :
           ~fs[p].readable => (HasLine(p) /\ Out[LineIndex(p)].kind = "dir" /\ ~HasLinesBelow(p))
      /\ result.dcnt = Cardinality({ i \in 2..Len(Out) : Out[i].kind = "dir" })

\* C8 witness: an unreadable directory with entries, above the depth limit, with
\* a later sibling rendered after it.
C8_Witness ==
  LET c == Cfg IN
    /\ Scanned
    /\ \E p \in ListedDirs(c) :
         /\ ~fs[p].readable
         /\ fs[p].entries # << >>
         /\ Len(p) < c.max_depth
         /\ ~IsLastSibling(LineIndex(p))

\* C9: the directory count is the number of directories met, each once, expanded
\* or not; the file count is the sum over the expanded directories of their kept
\* files, shown or hidden by the cap.
C9_Counts ==
  LET c == Cfg IN
    Scanned =>
      /\ result.dcnt = Cardinality(ListedDirs(c))
      /\ result.dcnt = Cardinality({ i \in 2..Len(Out) : Out[i].kind = "dir" })
      /\ result.fcnt
           = sum_over(ExpandedDirs(c), [ p \in ExpandedDirs(c) |-> Cardinality(PassingFiles(c, p)) ])

\* C9 witness: a scan with a directory at the depth limit, an unreadable
\* directory and a capped list, so that more files are counted than shown.
C9_Witness ==
  LET c == Cfg IN
    /\ Scanned
    /\ \E p \in ListedDirs(c) : Len(p) = c.max_depth /\ fs[p].readable /\ fs[p].entries # << >>
    /\ \E p \in ListedDirs(c) : ~fs[p].readable
    /\ \E p \in ExpandedDirs(c) : Capped(c, p)
    /\ result.fcnt > Cardinality({ i \in 2..Len(Out) : Out[i].kind = "file" })

\* Both runs were made on the same tree and configuration.
BothRuns == { "plain", "saved" } \subseteq done

\* C10 (as stated): the bytes of the --output file are the bytes the run without
\* --output writes to standard output.
C10_RoundTrip == BothRuns => out_file = stdout_plain

\* C10 (amended): standard output is the bytes of the --output file followed by
\* the one line feed print ends the text with.
C10_RoundTripNewline == BothRuns => stdout_plain = out_file \o << 10 >>

\* C10 witness: both runs made on a tree that renders several lines.
C10_Witness == BothRuns /\ Len(result.lines) >= 3 /\ Len(out_file) > 0

====
